---- MODULE Spec2Model ----
(***************************************************************************)
(* Model of package leb128 (leb128.go): the three decoders DecodeU32,      *)
(* DecodeU64, DecodeS64 reading an io.Reader one byte at a time, and the   *)
(* three encoders EncodeU32, EncodeU64, EncodeS64.                         *)
(*                                                                         *)
(* A fixed-width integer (uint32, uint64, int64) is modelled by the set of *)
(* the positions of its one-bits, so that 64-bit words stay exact: the     *)
(* word 0 is {}, the int64 -1 is 0..63, OR is set union, and a shift moves *)
(* the positions and drops those that leave the width.  A byte is an       *)
(* integer 0..255.                                                         *)
(***************************************************************************)
EXTENDS Integers, Sequences, FiniteSets, TLC

VARIABLES
    todo,    \* stream run: the <<kind, num>> values the caller encodes, then decodes
    written, \* stream run: how many values of todo have been encoded into the reader
    out,     \* the byte slice returned by the last Encode call
    src,     \* the reader: the results of its successive Read calls
    pos,     \* how many Read calls the reader has served
    start,   \* pos when the running Decode call began
    calls,   \* number of Decode calls begun
    kind,    \* which decoder the running call is: "U32", "U64", "S64"
    pc,      \* "idle" (no call yet), "read" (in the for loop), "done" (returned)
    buf,     \* buf[0] of the running call
    res,     \* local res
    shift,   \* local shift
    prev,    \* local prev (DecodeS64)
    seen,    \* the values b := buf[0] took in the running call, in order
    val,     \* returned value
    err      \* returned error

vars == <<todo, written, out, src, pos, start, calls, kind, pc, buf, res,
          shift, prev, seen, val, err>>

(***************************************************************************)
(* Bounds                                                                  *)
(***************************************************************************)
\* longest stream of values encoded back to back into one reader
MaxCalls == 2
\* most reads of one call that return n = 0 with a nil error
MaxEmpty == 1

Kinds == {"U32", "U64", "S64"}

(***************************************************************************)
(* Errors                                                                  *)
(***************************************************************************)
ErrOverflow == "ErrOverflow"

ErrNonMinimal == "ErrNonMinimal"

\* io.EOF, and the nil error
EOF == "EOF"

Nil == "nil"

(***************************************************************************)
(* Bytes and words                                                         *)
(***************************************************************************)
\* bit i of byte b
Bit(b, i) == (b \div (2 ^ i)) % 2

\* b & 0x80 != 0
Has80(b) == Bit(b, 7) = 1

\* b & 0x40 != 0
Has40(b) == Bit(b, 6) = 1

\* uintW(b & 0x7F) << shift, in a word of w bits
ShiftIn(b, sh, w) == {i + sh : i \in {j \in 0..6 : Bit(b, j) = 1}} \cap (0..(w - 1))

\* -1 << shift, as an int64
MinusOneShl(sh) == sh..63

\* byte(num & 0x7F)
Low7(num) ==
    LET p(i) == IF i \in num THEN 2 ^ i ELSE 0
    IN  p(0) + p(1) + p(2) + p(3) + p(4) + p(5) + p(6)

\* num >> 7 of an unsigned word: logical shift
Lsr7(num) == {i - 7 : i \in {j \in num : j >= 7}}

\* num >> 7 of an int64: arithmetic shift
Asr7(num) == Lsr7(num) \cup (IF 63 \in num THEN 57..63 ELSE {})

\* the int64 values 0 and -1
Zero == {}

MinusOne == 0..63

(***************************************************************************)
(* Encoders (pure functions)                                               *)
(***************************************************************************)
RECURSIVE EncodeU32(_), EncodeU64(_), EncodeS64(_)

\* the loop of EncodeU32: one byte per iteration, num >>= 7, done when num == 0
EncodeU32(num) ==
    LET b == Low7(num)
        n == Lsr7(num)
    IN  IF n = Zero THEN <<b>> ELSE <<b + 128>> \o EncodeU32(n)

\* the loop of EncodeU64
EncodeU64(num) ==
    LET b == Low7(num)
        n == Lsr7(num)
    IN  IF n = Zero THEN <<b>> ELSE <<b + 128>> \o EncodeU64(n)

\* S64Done without the test of the sign bit
S64DoneNoSign(n, b) == n = Zero \/ n = MinusOne

\* the termination test of EncodeS64, on the shifted num and the byte just taken
S64Done(n, b) == (n = Zero /\ ~Has40(b)) \/ (n = MinusOne /\ Has40(b))

\* the loop of EncodeS64
EncodeS64(num) ==
    LET b == Low7(num)
        n == Asr7(num)
    IN  IF S64Done(n, b) THEN <<b>> ELSE <<b + 128>> \o EncodeS64(n)

(***************************************************************************)
(* The reader.  A Read(buf) with len(buf) = 1 returns (n, err) and, when   *)
(* n = 1, has stored one byte in buf[0].                                   *)
(***************************************************************************)
Outcome(n, b, e) == [n |-> n, b |-> b, err |-> e]

\* buf[0] after the read
BufAfter(bf, o) == IF o.n = 1 THEN o.b ELSE bf

\* bytes with the continuation flag, and bytes without it
ContBytes == {128, 255}

TermBytes == {0, 1, 2, 15, 16, 63, 64, 65, 126, 127}

\* errors of a reader other than io.EOF
OtherErrors == {"ErrUnexpectedEOF", "ErrClosedPipe"}

PlainReads == {Outcome(1, x, Nil) : x \in ContBytes \cup TermBytes}

\* n = 0 and an error: end of input, or a failure
FailedReads == {Outcome(0, 0, e) : e \in {EOF} \cup OtherErrors}

\* n = 1 together with an error, as io.Reader allows
ByteAndError == {Outcome(1, 1, EOF), Outcome(1, 128, EOF), Outcome(1, 1, "ErrClosedPipe")}

\* n = 0 and a nil error, as io.Reader allows
EmptyRead == Outcome(0, 0, Nil)

Outcomes == PlainReads \cup FailedReads \cup ByteAndError \cup {EmptyRead}

RECURSIVE NumEmpty(_)
NumEmpty(s) ==
    IF s = <<>> THEN 0
    ELSE (IF Head(s) = EmptyRead THEN 1 ELSE 0) + NumEmpty(Tail(s))

\* an arbitrary io.Reader serves the next Read with outcome o
AnyRead(o) ==
    /\ pos = Len(src)
    /\ o = EmptyRead => NumEmpty(src) < MaxEmpty
    /\ src' = Append(src, o)
    /\ pos' = pos + 1

\* what a reader over a byte slice (bytes.Reader, bytes.Buffer) returns next:
\* the next byte of the slice, or (0, io.EOF) once the slice is exhausted
BufferNext == IF pos < Len(src) THEN src[pos + 1] ELSE Outcome(0, 0, EOF)

\* the reader over a byte slice serves the next Read
BufferRead ==
    /\ src' = IF pos < Len(src) THEN src ELSE Append(src, BufferNext)
    /\ pos' = pos + 1

(***************************************************************************)
(* Decoders: one action per iteration of the for loop                      *)
(***************************************************************************)
Ret(v, e) == [val |-> v, err |-> e]

\* ReadFailed with io.EOF returned as it is
ReadFailedRaw(e) == Ret(Zero, e)

\* ReadFailed with every error folded into ErrNonMinimal
ReadFailedFold(e) == Ret(Zero, ErrNonMinimal)

\* ReadFailed with io.EOF turned into io.ErrUnexpectedEOF
ReadFailedUnexpected(e) == IF e = EOF THEN Ret(Zero, "ErrUnexpectedEOF") ELSE Ret(Zero, e)

\* the two error returns after r.Read
ReadFailed(e) == IF e = EOF THEN Ret(Zero, ErrNonMinimal) ELSE Ret(Zero, e)

\* IsLast testing bit 0x40 in place of the continuation flag
IsLastBit6(b) == ~Has40(b)

\* (b & 0x80) == 0
IsLast(b) == ~Has80(b)

\* U32Last with the payload limit one bit too wide
U32LastWide(b, sh, r) ==
    IF sh > 32 /\ b > 31 THEN Ret(Zero, ErrOverflow)
    ELSE IF sh > 7 /\ b = 0 THEN Ret(Zero, ErrNonMinimal)
    ELSE Ret(r, Nil)

\* DecodeU32 on the terminating byte b, shift already advanced
U32Last(b, sh, r) ==
    IF sh > 32 /\ b > 15 THEN Ret(Zero, ErrOverflow)
    ELSE IF sh > 7 /\ b = 0 THEN Ret(Zero, ErrNonMinimal)
    ELSE Ret(r, Nil)

\* U64Last with the 10th byte required to be 1
U64LastOnlyOne(b, sh, r) ==
    IF sh > 64 /\ b # 1 THEN Ret(Zero, ErrOverflow)
    ELSE IF sh > 7 /\ b = 0 THEN Ret(Zero, ErrNonMinimal)
    ELSE Ret(r, Nil)

\* DecodeU64 on the terminating byte
U64Last(b, sh, r) ==
    IF sh > 64 /\ b > 1 THEN Ret(Zero, ErrOverflow)
    ELSE IF sh > 7 /\ b = 0 THEN Ret(Zero, ErrNonMinimal)
    ELSE Ret(r, Nil)

\* DecodeS64: the 10th byte must contain only the sign-extended sign bit
S64Overflow(b, sh) == sh > 64 /\ b # 0 /\ b # 127

\* S64Overlong without the case of a negative value
S64OverlongZeroOnly(b, sh, pv) == sh > 7 /\ b = 0 /\ ~Has40(pv)

\* DecodeS64: overlong if the sign bit of the penultimate byte has been extended
S64Overlong(b, sh, pv) ==
    sh > 7 /\ ((b = 0 /\ ~Has40(pv)) \/ (b = 127 /\ Has40(pv)))

\* SignExtend with the shift limit off by one
SignExtendBelow63(b, sh, r) == IF sh < 63 /\ Has40(b) THEN r \cup MinusOneShl(sh) ELSE r

\* DecodeS64: sign extend negative numbers
SignExtend(b, sh, r) == IF sh < 64 /\ Has40(b) THEN r \cup MinusOneShl(sh) ELSE r

\* DecodeS64 on the terminating byte
S64Last(b, sh, r, pv) ==
    IF S64Overflow(b, sh) THEN Ret(Zero, ErrOverflow)
    ELSE IF S64Overlong(b, sh, pv) THEN Ret(Zero, ErrNonMinimal)
    ELSE Ret(SignExtend(b, sh, r), Nil)

\* return v, e
Return(rt) ==
    /\ pc' = "done"
    /\ val' = rt.val
    /\ err' = rt.err

\* the call of a decoder up to its loop: res = 0, shift = 0, prev = 0, buf = make([]byte, 1)
Call(k) ==
    /\ kind' = k
    /\ pc' = "read"
    /\ buf' = 0
    /\ res' = Zero
    /\ shift' = 0
    /\ prev' = 0
    /\ seen' = <<>>
    /\ val' = Zero
    /\ err' = Nil
    /\ start' = pos
    /\ calls' = calls + 1
    /\ UNCHANGED <<todo, written, out, src, pos>>

\* one iteration of the loop of DecodeU32, its Read returning o
DecodeU32(o) ==
    /\ pc = "read"
    /\ kind = "U32"
    /\ buf' = BufAfter(buf, o)
    /\ IF o.err # Nil
       THEN /\ Return(ReadFailed(o.err))
            /\ UNCHANGED <<res, shift, seen>>
       ELSE LET b == buf'
                r == res \cup ShiftIn(b, shift, 32)
                sh == shift + 7
            IN  /\ seen' = Append(seen, b)
                /\ res' = r
                /\ shift' = sh
                /\ IF IsLast(b) THEN Return(U32Last(b, sh, r))
                   ELSE IF sh > 32 THEN Return(Ret(Zero, ErrOverflow))
                   ELSE UNCHANGED <<pc, val, err>>
    /\ UNCHANGED <<todo, written, out, start, calls, kind, prev>>

\* one iteration of the loop of DecodeU64
DecodeU64(o) ==
    /\ pc = "read"
    /\ kind = "U64"
    /\ buf' = BufAfter(buf, o)
    /\ IF o.err # Nil
       THEN /\ Return(ReadFailed(o.err))
            /\ UNCHANGED <<res, shift, seen>>
       ELSE LET b == buf'
                r == res \cup ShiftIn(b, shift, 64)
                sh == shift + 7
            IN  /\ seen' = Append(seen, b)
                /\ res' = r
                /\ shift' = sh
                /\ IF IsLast(b) THEN Return(U64Last(b, sh, r))
                   ELSE IF sh > 64 THEN Return(Ret(Zero, ErrOverflow))
                   ELSE UNCHANGED <<pc, val, err>>
    /\ UNCHANGED <<todo, written, out, start, calls, kind, prev>>

\* one iteration of the loop of DecodeS64
DecodeS64(o) ==
    /\ pc = "read"
    /\ kind = "S64"
    /\ buf' = BufAfter(buf, o)
    /\ IF o.err # Nil
       THEN /\ Return(ReadFailed(o.err))
            /\ UNCHANGED <<res, shift, seen, prev>>
       ELSE LET b == buf'
                r == res \cup ShiftIn(b, shift, 64)
                sh == shift + 7
            IN  /\ seen' = Append(seen, b)
                /\ shift' = sh
                /\ IF IsLast(b)
                   THEN /\ Return(S64Last(b, sh, r, prev))
                        /\ res' = IF S64Last(b, sh, r, prev).err = Nil
                                  THEN S64Last(b, sh, r, prev).val ELSE r
                        /\ prev' = prev
                   ELSE IF sh > 64
                   THEN /\ Return(Ret(Zero, ErrOverflow))
                        /\ res' = r
                        /\ prev' = prev
                   ELSE /\ res' = r
                        /\ prev' = b
                        /\ UNCHANGED <<pc, val, err>>
    /\ UNCHANGED <<todo, written, out, start, calls, kind>>

(***************************************************************************)
(* Spec: one Decode call on an arbitrary io.Reader                         *)
(***************************************************************************)
Init ==
    /\ todo = <<>>
    /\ written = 0
    /\ out = <<>>
    /\ src = <<>>
    /\ pos = 0
    /\ start = 0
    /\ calls = 0
    /\ kind = "U32"
    /\ pc = "idle"
    /\ buf = 0
    /\ res = Zero
    /\ shift = 0
    /\ prev = 0
    /\ seen = <<>>
    /\ val = Zero
    /\ err = Nil

Next ==
    \/ \E k \in Kinds : pc = "idle" /\ Call(k)
    \/ \E o \in Outcomes : AnyRead(o) /\ DecodeU32(o)
    \/ \E o \in Outcomes : AnyRead(o) /\ DecodeU64(o)
    \/ \E o \in Outcomes : AnyRead(o) /\ DecodeS64(o)

Spec == Init /\ [][Next]_vars

(***************************************************************************)
(* SpecStream: the caller encodes the values of todo back to back into a   *)
(* byte slice, then decodes them in order from a reader over that slice     *)
(***************************************************************************)
\* the word of a natural number below 2^31
NatBits(n) == {i \in 0..30 : (n \div (2 ^ i)) % 2 = 1}

\* the int64 of a small integer, in two's complement
OfInt(n) == IF n >= 0 THEN NatBits(n) ELSE (0..63) \ NatBits(-n - 1)

U32Values ==
    (SUBSET {0, 6, 7, 13, 28, 31})
        \cup {NatBits(n) : n \in {127, 128, 300, 16383, 16384}} \cup {0..31}

U64Values ==
    (SUBSET {0, 6, 7, 31, 32, 56, 62, 63})
        \cup {NatBits(n) : n \in {127, 128, 300}} \cup {0..63, 0..62}

S64Values ==
    LET P == SUBSET {0, 5, 6, 7, 55, 56, 62, 63}
    IN  P \cup {(0..63) \ x : x \in P}
          \cup {OfInt(n) : n \in {63, 64, -64, -65, 127, 128, -128, -129, 300, -300}}

Value(k, num) == [kind |-> k, num |-> num]

AllValues ==
    {Value("U32", x) : x \in U32Values}
        \cup {Value("U64", x) : x \in U64Values}
        \cup {Value("S64", x) : x \in S64Values}

\* the values of the longer streams
StreamValues ==
    {Value("U32", Zero), Value("U32", NatBits(300)),
     Value("U64", NatBits(128)), Value("U64", 0..63),
     Value("S64", MinusOne), Value("S64", OfInt(-129)), Value("S64", {63})}

Streams ==
    {<<x>> : x \in AllValues}
        \cup UNION {[1..n -> StreamValues] : n \in 2..MaxCalls}

\* the bytes of a slice as the reads of a reader over it
AsReads(bytes) == [i \in 1..Len(bytes) |-> Outcome(1, bytes[i], Nil)]

\* the caller appends the slice enc, the Encode of the next value, to the input
Write(k, enc) ==
    /\ written < Len(todo)
    /\ todo[written + 1].kind = k
    /\ out' = enc
    /\ src' = src \o AsReads(enc)
    /\ written' = written + 1
    /\ UNCHANGED <<todo, pos, start, calls, kind, pc, buf, res, shift, prev,
                   seen, val, err>>

\* the caller decodes the next value once the previous call has succeeded
CallNext ==
    /\ written = Len(todo)
    /\ calls < Len(todo)
    /\ pc = "idle" \/ (pc = "done" /\ err = Nil)
    /\ Call(todo[calls + 1].kind)

InitStream ==
    /\ todo \in Streams
    /\ written = 0
    /\ out = <<>>
    /\ src = <<>>
    /\ pos = 0
    /\ start = 0
    /\ calls = 0
    /\ kind = "U32"
    /\ pc = "idle"
    /\ buf = 0
    /\ res = Zero
    /\ shift = 0
    /\ prev = 0
    /\ seen = <<>>
    /\ val = Zero
    /\ err = Nil

NextStream ==
    \/ Write("U32", EncodeU32(todo[written + 1].num))
    \/ Write("U64", EncodeU64(todo[written + 1].num))
    \/ Write("S64", EncodeS64(todo[written + 1].num))
    \/ CallNext
    \/ BufferRead /\ DecodeU32(BufferNext)
    \/ BufferRead /\ DecodeU64(BufferNext)
    \/ BufferRead /\ DecodeS64(BufferNext)

SpecStream == InitStream /\ [][NextStream]_vars

(***************************************************************************)
(* Properties                                                              *)
(***************************************************************************)
\* the reads of the running call
NReads == pos - start

ReadAt(i) == src[start + i]

\* every read of the running call delivered one byte and a nil error
AllPlain == \A i \in 1..NReads : ReadAt(i).n = 1 /\ ReadAt(i).err = Nil

\* the bytes the reads of the running call carried
ReadBytes == [i \in 1..NReads |-> ReadAt(i).b]

\* the bytes the reads of the running call delivered (those of the reads with n = 1)
Delivered ==
    LET got == SelectSeq(SubSeq(src, start + 1, pos), LAMBDA o : o.n = 1)
    IN  [i \in 1..Len(got) |-> got[i].b]

EncodeOf(v) ==
    CASE v.kind = "U32" -> EncodeU32(v.num)
      [] v.kind = "U64" -> EncodeU64(v.num)
      [] v.kind = "S64" -> EncodeS64(v.num)

\* the encodings of todo[i], todo[i+1], ... back to back
RECURSIVE StreamBytes(_)
StreamBytes(i) ==
    IF i > Len(todo) THEN <<>> ELSE EncodeOf(todo[i]) \o StreamBytes(i + 1)

\* the word a LEB128 byte sequence stands for, by the format's definition
PayloadBits(bytes) ==
    UNION {{7 * (i - 1) + j : j \in {x \in 0..6 : Bit(bytes[i], x) = 1}} :
               i \in 1..Len(bytes)}

Denotes(k, bytes) ==
    IF k = "S64"
    THEN ((PayloadBits(bytes) \cap (0..63)) \cup
            (IF Has40(bytes[Len(bytes)]) THEN (7 * Len(bytes))..63 ELSE {}))
    ELSE PayloadBits(bytes)

\* the least number of bytes whose payload holds the value
MinLen(k, num) ==
    IF k = "S64"
    THEN CHOOSE n \in 1..10 :
            /\ \A i \in (7 * n - 1)..63 : (i \in num) <=> (63 \in num)
            /\ \A m \in 1..(n - 1) :
                  \E i \in (7 * m - 1)..63 : (i \in num) # (63 \in num)
    ELSE IF num = {} THEN 1
    ELSE CHOOSE n \in 1..10 : \E i \in num : i \div 7 = n - 1 /\ \A j \in num : j <= i

\* continuation flag on every byte but the last
WellFormed(bytes) ==
    /\ Len(bytes) >= 1
    /\ \A i \in 1..Len(bytes) :
          bytes[i] \in 0..255 /\ (Has80(bytes[i]) <=> i < Len(bytes))

\* C1: decoding a reader over the encoder's output returns the value encoded,
\* with no error, for DecodeU32/EncodeU32, DecodeU64/EncodeU64 and
\* DecodeS64/EncodeS64.
C1_RoundTrip ==
    pc = "done" => err = Nil /\ val = todo[calls].num

\* the minimum int64 has gone through EncodeS64 and DecodeS64, ten bytes long
C1_Witness ==
    /\ pc = "done"
    /\ kind = "S64"
    /\ todo[calls].num = {63}
    /\ NReads = 10
    /\ val = {63}
    /\ err = Nil

\* C3: every encoder output is well formed, stands for the value encoded, is of
\* the least length that can hold it, has no redundant last byte, and the named
\* values have the named encodings.
C3_EncodeMinimal ==
    written > 0 =>
        LET v == todo[written]
            n == Len(out)
        IN  /\ WellFormed(out)
            /\ Denotes(v.kind, out) = v.num
            /\ n = MinLen(v.kind, v.num)
            /\ v.kind # "S64" => n = 1 \/ out[n] # 0
            /\ v.kind = "S64" /\ n > 1 =>
                  /\ ~(out[n] = 0 /\ ~Has40(out[n - 1]))
                  /\ ~(out[n] = 127 /\ Has40(out[n - 1]))
            /\ v = Value("U32", NatBits(0)) => out = <<0>>
            /\ v = Value("U32", NatBits(127)) => out = <<127>>
            /\ v = Value("U32", NatBits(128)) => out = <<128, 1>>
            /\ v = Value("U32", NatBits(300)) => out = <<172, 2>>
            /\ v = Value("S64", OfInt(-1)) => out = <<127>>
            /\ v = Value("S64", OfInt(-128)) => out = <<128, 127>>
            /\ v = Value("S64", OfInt(63)) => out = <<63>>
            /\ v = Value("S64", OfInt(-64)) => out = <<64>>

\* EncodeS64(-128) has returned [0x80, 0x7F]
C3_Witness ==
    /\ written > 0
    /\ todo[written] = Value("S64", OfInt(-128))
    /\ out = <<128, 127>>

\* C9: a successful decode call has read the bytes up to and including the first
\* one without the continuation flag and nothing after it, so that successive
\* calls on the concatenation of encodings return the values in order and the
\* bytes of the values not yet decoded stay unread.
C9_SelfDelimiting ==
    pc = "done" =>
        /\ err = Nil
        /\ NReads >= 1
        /\ AllPlain
        /\ \A i \in 1..NReads : Has80(ReadAt(i).b) <=> i < NReads
        /\ seen = ReadBytes
        /\ val = todo[calls].num
        /\ src = AsReads(StreamBytes(1))
        /\ SubSeq(src, pos + 1, Len(src)) = AsReads(StreamBytes(calls + 1))

\* the second call on a stream of two values of different types has returned
C9_Witness ==
    /\ pc = "done"
    /\ calls = 2
    /\ err = Nil
    /\ todo[1].kind # todo[2].kind
    /\ val = todo[2].num
    /\ start > 1
    /\ NReads > 1

\* C2: a call that succeeds on bytes delivered one per read has consumed exactly
\* the encoding the matching encoder gives the returned value.
C2_OnlyMinimalAccepted ==
    pc = "done" /\ err = Nil /\ AllPlain =>
        /\ seen = ReadBytes
        /\ EncodeOf(Value(kind, val)) = ReadBytes

\* DecodeS64 has accepted a sequence of ten bytes
C2_Witness ==
    /\ pc = "done"
    /\ err = Nil
    /\ AllPlain
    /\ kind = "S64"
    /\ NReads = 10
    /\ ReadAt(10).b = 127

\* the most bytes a decoder reads: ceil(32 / 7) and ceil(64 / 7)
ReadLimit(k) == IF k = "U32" THEN 5 ELSE 10

\* a last permitted byte that does not fit the width
Overflowing(k, b) ==
    \/ Has80(b)
    \/ k = "U32" /\ b > 15
    \/ k = "U64" /\ b > 1
    \/ k = "S64" /\ b # 0 /\ b # 127

\* C4: the 5th byte of DecodeU32 (the 10th of DecodeU64, DecodeS64) that has the
\* continuation flag or carries bits that do not fit ends the call with
\* ErrOverflow and the value 0, no further byte is read, and a call that succeeds
\* has dropped no payload bit.
C4_Overflow ==
    /\ NReads <= ReadLimit(kind)
    /\ AllPlain /\ NReads = ReadLimit(kind) /\ Overflowing(kind, ReadAt(NReads).b) =>
          pc = "done" /\ err = ErrOverflow /\ val = Zero
    /\ pc = "done" /\ err = ErrOverflow => val = Zero /\ NReads = ReadLimit(kind)
    /\ pc = "done" /\ err = Nil /\ AllPlain => Denotes(kind, ReadBytes) = val

\* DecodeU32 has returned ErrOverflow on [0xFF, 0xFF, 0xFF, 0xFF, 0x10]
C4_Witness ==
    /\ pc = "done"
    /\ kind = "U32"
    /\ AllPlain
    /\ ReadBytes = <<255, 255, 255, 255, 16>>
    /\ err = ErrOverflow

\* the last byte of two or more repeats what the byte before it implies
Redundant(k, b, pb) ==
    IF k = "S64" THEN (b = 0 /\ ~Has40(pb)) \/ (b = 127 /\ Has40(pb)) ELSE b = 0

\* C5: a sequence of two or more bytes whose terminating byte is redundant ends
\* the call with ErrNonMinimal, and the single byte 0x00 is accepted as 0.
C5_NonMinimal ==
    /\ /\ pc = "done"
       /\ AllPlain
       /\ NReads > 1
       /\ ~Has80(ReadAt(NReads).b)
       /\ Redundant(kind, ReadAt(NReads).b, ReadAt(NReads - 1).b)
       => err = ErrNonMinimal /\ val = Zero
    /\ pc = "done" /\ AllPlain /\ ReadBytes = <<0>> => err = Nil /\ val = Zero

\* DecodeS64 has rejected a 10th byte 0x7F after a 9th byte with bit 0x40 set
C5_Witness ==
    /\ pc = "done"
    /\ kind = "S64"
    /\ AllPlain
    /\ NReads = 10
    /\ ReadAt(10).b = 127
    /\ Has40(ReadAt(9).b)
    /\ err = ErrNonMinimal

\* C6: a read that signals io.EOF, the first of the call or a later one, ends the
\* call with ErrNonMinimal and the value 0.
C6_EofIsNonMinimal ==
    \A i \in 1..NReads :
        ReadAt(i).err = EOF =>
            i = NReads /\ pc = "done" /\ err = ErrNonMinimal /\ val = Zero

\* DecodeU64 has met io.EOF after three continuation bytes
C6_Witness ==
    /\ pc = "done"
    /\ kind = "U64"
    /\ NReads = 4
    /\ \A i \in 1..3 : ReadAt(i).n = 1 /\ ReadAt(i).err = Nil
    /\ ReadAt(4) = Outcome(0, 0, EOF)
    /\ err = ErrNonMinimal

\* C7: a read that fails with an error other than io.EOF is the last read of the
\* call, which returns that error and the value 0.
C7_SourceFailure ==
    \A i \in 1..NReads :
        ReadAt(i).err \in OtherErrors =>
            /\ i = NReads
            /\ pos = Len(src)
            /\ pc = "done"
            /\ err = ReadAt(i).err
            /\ val = Zero

\* DecodeS64 has returned io.ErrUnexpectedEOF raised by its third read
C7_Witness ==
    /\ pc = "done"
    /\ kind = "S64"
    /\ NReads = 3
    /\ ReadAt(3).err = "ErrUnexpectedEOF"
    /\ err = "ErrUnexpectedEOF"
    /\ val = Zero

\* C8 as stated: only an io.EOF of the first read becomes ErrNonMinimal, and any
\* other error of a read, an io.EOF after a continuation byte included, is
\* returned as it is.
C8_EofOnlyAtStart ==
    pc = "done" /\ NReads >= 1 /\ ReadAt(NReads).err # Nil =>
        err = IF ReadAt(NReads).err = EOF /\ NReads = 1
              THEN ErrNonMinimal ELSE ReadAt(NReads).err

\* C8 amended: io.EOF becomes ErrNonMinimal at whichever read it is signalled,
\* and only io.EOF does: any other error of a read is returned as it is.
C8_EofAnywhere ==
    pc = "done" /\ NReads >= 1 /\ ReadAt(NReads).err # Nil =>
        /\ err = IF ReadAt(NReads).err = EOF THEN ErrNonMinimal ELSE ReadAt(NReads).err
        /\ err = ErrNonMinimal <=> ReadAt(NReads).err = EOF

\* DecodeU32 has turned an io.EOF after two continuation bytes into ErrNonMinimal
C8_Witness ==
    /\ pc = "done"
    /\ kind = "U32"
    /\ ReadBytes = <<128, 255, 0>>
    /\ ReadAt(3) = Outcome(0, 0, EOF)
    /\ err = ErrNonMinimal

\* C10: the bytes a call decodes are the bytes its reads delivered: a byte that
\* comes with io.EOF is decoded before the io.EOF counts, and a read of no byte
\* and no error decodes nothing.
C10_DecodesWhatWasDelivered ==
    /\ pc # "idle" => seen = Delivered
    /\ pc = "done" /\ NReads = 1 /\ ReadAt(1) = Outcome(1, 1, EOF) =>
          err = Nil /\ val = {0}

====
